---- MODULE Spec2Model ----
(***************************************************************************)
(* Model of src-tauri/src/lib.rs of ama-agent: the global-shortcut         *)
(* debounce, the window show/hide handlers (tray menu, tray icon, hotkey,  *)
(* close interception, hide_to_tray) and the config commands.              *)
(*                                                                         *)
(* Time is in milliseconds.  Instants are naturals; the clock is           *)
(* monotonic (std::time::Instant).  Hotkey handler invocations run on      *)
(* their own execution context and are modelled statement by statement;    *)
(* tray, close and command handlers run on the main thread and are one     *)
(* action each.  Window calls whose Result is discarded (let _ = ...) are  *)
(* modelled on their success path; hide_to_tray, which propagates the      *)
(* Results with `?`, takes the outcome of each call as an input.           *)
(***************************************************************************)
EXTENDS Integers, Sequences, FiniteSets, TLC

\* ---------------------------------------------------------------- constants
SHORTCUT_DEBOUNCE_MS == 300

\* Duration::from_secs(1) subtracted from Instant::now() at start-up.
InitialBackdateMs == 1000

\* ------------------------------------------------------------------- bounds
MaxActivations == 2
MaxTicks == 3

\* The hotkey activations, numbered in the order their handlers are entered;
\* each is one invocation of the on_shortcut closure.
Activations == 1..MaxActivations
\* Clock advances between steps: a moment, just under the debounce, and it.
TickDeltas == {1, SHORTCUT_DEBOUNCE_MS - 1, SHORTCUT_DEBOUNCE_MS}

NoHolder == 0

VARIABLES
    clock,              \* current reading of Instant::now()
    ticks,              \* number of clock advances so far
    last_shortcut_time, \* *last_shortcut_time (the Mutex's content)
    lock,               \* holder of the Mutex, NoHolder when free
    pc,                 \* pc[h]: position of hotkey handler invocation h
    now,                \* now[h]: the local `now` of invocation h
    inv,                \* inv[h]: what invocation h has done so far
    visible,            \* main window visibility
    focused,            \* main window has input focus
    windows,            \* labels of the windows that exist
    running,            \* process has not exited
    exit_code,          \* code passed to app.exit
    last_op,            \* the last main-thread handler that ran
    last_event,         \* last of window-shown / window-hidden emitted
    call_failed,        \* some emit or window call has returned an error
    config_dir,         \* result of dirs::config_dir()
    file                \* state of <config_dir>/ama-agent/config.json

winvars == <<visible, focused, windows, running, exit_code, last_op, last_event,
             call_failed>>
hotvars == <<clock, ticks, last_shortcut_time, lock, pc, now, inv>>
cfgvars == <<config_dir, file>>
vars == <<clock, ticks, last_shortcut_time, lock, pc, now, inv, visible,
          focused, windows, running, exit_code, last_op, last_event,
          call_failed, config_dir, file>>

\* ----------------------------------------------------------- window calls
\* The main window as seen by a handler: its state and the calls made on it.
WinState(calls) ==
    [visible |-> visible, focused |-> focused, last_event |-> last_event,
     calls |-> calls]

\* window.show()
WShow(w) == [w EXCEPT !.visible = TRUE, !.calls = Append(@, "show")]

\* window.set_focus()
WSetFocus(w) == [w EXCEPT !.focused = TRUE, !.calls = Append(@, "set_focus")]

\* window.hide(): a hidden window does not keep input focus
WHide(w) ==
    [w EXCEPT !.visible = FALSE, !.focused = FALSE, !.calls = Append(@, "hide")]

\* window.emit(event, ())
WEmit(w, event) ==
    [w EXCEPT !.last_event = IF event \in {"window-shown", "window-hidden"}
                             THEN event ELSE @,
              !.calls = Append(@, event)]

\* app.get_webview_window("main")
get_webview_window(label) == label \in windows

\* Writes a window state back to the variables and yields the calls made.
Apply(w) ==
    /\ visible' = w.visible
    /\ focused' = w.focused
    /\ last_event' = w.last_event

\* ---------------------------------------------------------------- debounce
\* absolute difference in place of the saturating subtraction
duration_since_abs(later, earlier) ==
    IF later >= earlier THEN later - earlier ELSE earlier - later

\* Instant::duration_since saturates to zero when `earlier` is later.
duration_since(later, earlier) == IF later >= earlier THEN later - earlier ELSE 0

\* `<=` in place of `<`
TooSoon_le(n, last) == duration_since(n, last) <= SHORTCUT_DEBOUNCE_MS

\* the debounce taken in microseconds: Duration::from_micros
TooSoon_micros(n, last) == duration_since(n, last) * 1000 < SHORTCUT_DEBOUNCE_MS

\* now.duration_since(*last_time) < Duration::from_millis(SHORTCUT_DEBOUNCE_MS)
TooSoon(n, last) == duration_since(n, last) < SHORTCUT_DEBOUNCE_MS

\* What an invocation has done: its place in the order the lock was taken
\* (0 before), the debounce result, the visibility it read, its window calls.
NoInv == [order |-> 0, result |-> "none", saw |-> "none", calls |-> <<>>]

Tick ==
    /\ running
    /\ ticks < MaxTicks
    /\ \E d \in TickDeltas : clock' = clock + d
    /\ ticks' = ticks + 1
    /\ UNCHANGED <<last_shortcut_time, lock, pc, now, inv>>
    /\ UNCHANGED winvars
    /\ UNCHANGED cfgvars

\* line 108: the handler is entered and reads the clock
ReadNow(h) ==
    /\ running
    /\ pc[h] = "idle"
    /\ \A g \in Activations : g < h => pc[g] # "idle"
    /\ now' = [now EXCEPT ![h] = clock]
    /\ pc' = [pc EXCEPT ![h] = "lock"]
    /\ UNCHANGED <<clock, ticks, last_shortcut_time, lock, inv>>
    /\ UNCHANGED winvars
    /\ UNCHANGED cfgvars

\* line 110: shortcut_time.lock().unwrap()
Lock(h) ==
    /\ running
    /\ pc[h] = "lock"
    /\ lock = NoHolder
    /\ lock' = h
    /\ pc' = [pc EXCEPT ![h] = "compare"]
    /\ inv' = [inv EXCEPT ![h].order =
                 Cardinality({g \in Activations : inv[g].order > 0}) + 1]
    /\ UNCHANGED <<clock, ticks, last_shortcut_time, now>>
    /\ UNCHANGED winvars
    /\ UNCHANGED cfgvars

\* the `return` is missing: a rejected activation goes on to the toggle
Compare_noreturn(h) ==
    /\ running
    /\ pc[h] = "compare"
    /\ IF TooSoon(now[h], last_shortcut_time)
       THEN /\ inv' = [inv EXCEPT ![h].result = "rejected"]
            /\ UNCHANGED last_shortcut_time
       ELSE /\ last_shortcut_time' = now[h]
            /\ inv' = [inv EXCEPT ![h].result = "accepted"]
    /\ pc' = [pc EXCEPT ![h] = "unlock"]
    /\ UNCHANGED <<clock, ticks, lock, now>>
    /\ UNCHANGED winvars
    /\ UNCHANGED cfgvars

\* lines 111-114: the comparison; `return` drops the guard, otherwise the
\* timestamp is overwritten with `now`
Compare(h) ==
    /\ running
    /\ pc[h] = "compare"
    /\ IF TooSoon(now[h], last_shortcut_time)
       THEN /\ lock' = NoHolder
            /\ pc' = [pc EXCEPT ![h] = "done"]
            /\ inv' = [inv EXCEPT ![h].result = "rejected"]
            /\ UNCHANGED last_shortcut_time
       ELSE /\ last_shortcut_time' = now[h]
            /\ pc' = [pc EXCEPT ![h] = "unlock"]
            /\ inv' = [inv EXCEPT ![h].result = "accepted"]
            /\ UNCHANGED lock
    /\ UNCHANGED <<clock, ticks, now>>
    /\ UNCHANGED winvars
    /\ UNCHANGED cfgvars

\* no inner block: the guard lives to the end of the closure
Unlock_late(h) ==
    /\ running
    /\ pc[h] = "unlock"
    /\ pc' = [pc EXCEPT ![h] = "is_visible"]
    /\ UNCHANGED <<clock, ticks, last_shortcut_time, lock, now, inv>>
    /\ UNCHANGED winvars
    /\ UNCHANGED cfgvars

\* line 115: end of the block, the guard is dropped
Unlock(h) ==
    /\ running
    /\ pc[h] = "unlock"
    /\ lock' = NoHolder
    /\ pc' = [pc EXCEPT ![h] = "is_visible"]
    /\ UNCHANGED <<clock, ticks, last_shortcut_time, now, inv>>
    /\ UNCHANGED winvars
    /\ UNCHANGED cfgvars

\* lines 117-119: get_webview_window("main") and window.is_visible();
\* the query is taken to succeed (unwrap_or(false) sends a failed query
\* down the hidden branch)
IsVisible(h) ==
    /\ running
    /\ pc[h] = "is_visible"
    /\ IF ~get_webview_window("main")
       THEN /\ pc' = [pc EXCEPT ![h] = "done"]
            /\ inv' = [inv EXCEPT ![h].saw = "nowindow"]
       ELSE IF visible
       THEN /\ pc' = [pc EXCEPT ![h] = "emit_action"]
            /\ inv' = [inv EXCEPT ![h].saw = "shown"]
       ELSE /\ pc' = [pc EXCEPT ![h] = "show"]
            /\ inv' = [inv EXCEPT ![h].saw = "hidden"]
    /\ UNCHANGED <<clock, ticks, last_shortcut_time, lock, now>>
    /\ UNCHANGED winvars
    /\ UNCHANGED cfgvars

\* One window call of a hotkey handler invocation.
HandlerCall(h, at, w, next) ==
    /\ running
    /\ pc[h] = at
    /\ Apply(w)
    /\ inv' = [inv EXCEPT ![h].calls = w.calls]
    /\ pc' = [pc EXCEPT ![h] = next]
    /\ UNCHANGED <<clock, ticks, last_shortcut_time, lock, now>>
    /\ UNCHANGED <<windows, running, exit_code, last_op, call_failed>>
    /\ UNCHANGED cfgvars

\* the visible branch hides the window, as a plain toggle would
EmitAction_hide(h) ==
    HandlerCall(h, "emit_action",
                WEmit(WHide(WinState(inv[h].calls)), "window-hidden"), "done")

\* line 121: window.emit("shortcut-action", ())
EmitAction(h) ==
    HandlerCall(h, "emit_action",
                WEmit(WinState(inv[h].calls), "shortcut-action"), "done")

\* line 124: window.show()
ToggleShow(h) ==
    HandlerCall(h, "show", WShow(WinState(inv[h].calls)), "set_focus")

\* line 125: window.set_focus()
ToggleSetFocus(h) ==
    HandlerCall(h, "set_focus", WSetFocus(WinState(inv[h].calls)), "emit_shown")

\* the hidden branch emits the event of the visible branch
ToggleEmitShown_action(h) ==
    HandlerCall(h, "emit_shown",
                WEmit(WinState(inv[h].calls), "shortcut-action"), "done")

\* line 126: window.emit("window-shown", ())
ToggleEmitShown(h) ==
    HandlerCall(h, "emit_shown",
                WEmit(WinState(inv[h].calls), "window-shown"), "done")

\* ------------------------------------------------------ main-thread handlers
MenuIds == {"show", "quit"}
TrayIconEvents == {"Click", "DoubleClick"}
Labels == {"main", "other"}

\* Result values handed back by a handler: Ok(..) or Err(message)
Ok == [ok |-> TRUE, err |-> ""]
Err(e) == [ok |-> FALSE, err |-> e]

NoDoc == [x \in {} |-> <<>>]

\* A main-thread handler that ran: its name and argument, the visibility it
\* found, the window calls it made, its result, and the document it was
\* given or returned.
NoOp == [op |-> "none", arg |-> "none", was_visible |-> FALSE, calls |-> <<>>,
         result |-> Ok, doc |-> NoDoc]

Op(name, arg, calls, result) ==
    [op |-> name, arg |-> arg, was_visible |-> visible, calls |-> calls,
     result |-> result, doc |-> NoDoc]

ConfigOp(name, result, doc) ==
    [op |-> name, arg |-> "none", was_visible |-> visible, calls |-> <<>>,
     result |-> result, doc |-> doc]

HotUnchanged == UNCHANGED hotvars

\* "quit" hides the window to the tray before exiting
on_menu_event_hide(id) ==
    /\ running
    /\ id \in MenuIds
    /\ IF id = "show"
       THEN LET w == WSetFocus(WShow(WinState(<<>>))) IN
            /\ Apply(w)
            /\ last_op' = Op("menu", id, w.calls, Ok)
            /\ UNCHANGED <<windows, running, exit_code>>
       ELSE LET w == WHide(WEmit(WinState(<<>>), "window-hidden")) IN
            /\ Apply(w)
            /\ running' = FALSE
            /\ exit_code' = 0
            /\ last_op' = Op("menu", id, Append(w.calls, "exit"), Ok)
            /\ UNCHANGED windows
    /\ UNCHANGED call_failed
    /\ HotUnchanged
    /\ UNCHANGED cfgvars

\* lines 78-89: the tray menu
on_menu_event(id) ==
    /\ running
    /\ IF id = "show"
       THEN IF get_webview_window("main")
            THEN LET w == WSetFocus(WShow(WinState(<<>>))) IN
                 /\ Apply(w)
                 /\ last_op' = Op("menu", id, w.calls, Ok)
                 /\ UNCHANGED <<windows, running, exit_code>>
            ELSE /\ last_op' = Op("menu", id, <<>>, Ok)
                 /\ UNCHANGED <<visible, focused, last_event, windows, running,
                                exit_code>>
       ELSE IF id = "quit"
       THEN /\ running' = FALSE
            /\ exit_code' = 0
            /\ last_op' = Op("menu", id, <<"exit">>, Ok)
            /\ UNCHANGED <<visible, focused, last_event, windows>>
       ELSE /\ last_op' = Op("menu", id, <<>>, Ok)
            /\ UNCHANGED <<visible, focused, last_event, windows, running,
                           exit_code>>
    /\ UNCHANGED call_failed
    /\ HotUnchanged
    /\ UNCHANGED cfgvars

\* the tray icon goes through the debounce of the hotkey
on_tray_icon_event_debounced(event) ==
    /\ running
    /\ IF /\ event = "DoubleClick" /\ get_webview_window("main")
          /\ lock = NoHolder /\ ~TooSoon(clock, last_shortcut_time)
       THEN LET w == WEmit(WSetFocus(WShow(WinState(<<>>))), "window-shown") IN
            /\ Apply(w)
            /\ last_op' = Op("tray", event, w.calls, Ok)
            /\ last_shortcut_time' = clock
       ELSE /\ last_op' = Op("tray", event, <<>>, Ok)
            /\ UNCHANGED <<visible, focused, last_event, last_shortcut_time>>
    /\ UNCHANGED <<windows, running, exit_code, call_failed>>
    /\ UNCHANGED <<clock, ticks, lock, pc, now, inv>>
    /\ UNCHANGED cfgvars

\* lines 90-98: the tray icon
on_tray_icon_event(event) ==
    /\ running
    /\ IF event = "DoubleClick" /\ get_webview_window("main")
       THEN LET w == WEmit(WSetFocus(WShow(WinState(<<>>))), "window-shown") IN
            /\ Apply(w)
            /\ last_op' = Op("tray", event, w.calls, Ok)
       ELSE /\ last_op' = Op("tray", event, <<>>, Ok)
            /\ UNCHANGED <<visible, focused, last_event>>
    /\ UNCHANGED <<windows, running, exit_code>>
    /\ UNCHANGED call_failed
    /\ HotUnchanged
    /\ UNCHANGED cfgvars

\* the close request is not prevented
CloseRequested_noprevent(label) ==
    /\ running
    /\ label \in windows
    /\ LET w == IF label = "main"
                THEN WHide(WEmit(WinState(<<>>), "window-hidden"))
                ELSE WinState(<<>>)
       IN  /\ Apply(w)
           /\ last_op' = Op("close", label, w.calls, Ok)
    /\ windows' = windows \ {label}
    /\ UNCHANGED <<running, exit_code>>
    /\ UNCHANGED call_failed
    /\ HotUnchanged
    /\ UNCHANGED cfgvars

\* lines 142-155: RunEvent::WindowEvent { label, CloseRequested { api } }.
\* A close request that is not prevented destroys the window.
CloseRequested(label) ==
    /\ running
    /\ label \in windows
    /\ IF label = "main"
       THEN LET w0 == [WinState(<<>>) EXCEPT !.calls = <<"prevent_close">>]
                w  == IF get_webview_window("main")
                      THEN WHide(WEmit(w0, "window-hidden"))
                      ELSE w0
            IN  /\ Apply(w)
                /\ last_op' = Op("close", label, w.calls, Ok)
                /\ windows' = IF "prevent_close" \in {w.calls[i] : i \in 1..Len(w.calls)}
                              THEN windows ELSE windows \ {label}
       ELSE /\ windows' = windows \ {label}
            /\ last_op' = Op("close", label, <<>>, Ok)
            /\ UNCHANGED <<visible, focused, last_event>>
    /\ UNCHANGED <<running, exit_code>>
    /\ UNCHANGED call_failed
    /\ HotUnchanged
    /\ UNCHANGED cfgvars

\* the outcomes of the two calls of hide_to_tray, as the handler's argument
Outcomes(emit_ok, hide_ok) ==
    IF emit_ok THEN (IF hide_ok THEN "both succeed" ELSE "hide fails")
    ELSE (IF hide_ok THEN "emit fails" ELSE "both fail")

\* the Result of window.hide() is discarded
hide_to_tray_swallow(emit_ok, hide_ok) ==
    /\ running
    /\ get_webview_window("main")
    /\ IF ~emit_ok
       THEN /\ last_op' = Op("hide_to_tray", Outcomes(emit_ok, hide_ok), <<>>,
                             Err("emit"))
            /\ call_failed' = TRUE
            /\ UNCHANGED <<visible, focused, last_event>>
       ELSE LET w1 == WEmit(WinState(<<>>), "window-hidden")
                w2 == IF hide_ok THEN WHide(w1) ELSE w1 IN
            /\ Apply(w2)
            /\ last_op' = Op("hide_to_tray", Outcomes(emit_ok, hide_ok),
                             w2.calls, Ok)
            /\ call_failed' = (call_failed \/ ~hide_ok)
    /\ UNCHANGED <<windows, running, exit_code>>
    /\ HotUnchanged
    /\ UNCHANGED cfgvars

\* lines 51-56: the hide_to_tray command, invoked from the main window;
\* emit_ok and hide_ok are the outcomes of the two calls
hide_to_tray(emit_ok, hide_ok) ==
    /\ running
    /\ get_webview_window("main")
    /\ IF ~emit_ok
       THEN /\ last_op' = Op("hide_to_tray", Outcomes(emit_ok, hide_ok), <<>>,
                             Err("emit"))
            /\ call_failed' = TRUE
            /\ UNCHANGED <<visible, focused, last_event>>
       ELSE LET w1 == WEmit(WinState(<<>>), "window-hidden") IN
            IF ~hide_ok
            THEN /\ Apply(w1)
                 /\ last_op' = Op("hide_to_tray", Outcomes(emit_ok, hide_ok),
                                  w1.calls, Err("hide"))
                 /\ call_failed' = TRUE
            ELSE /\ Apply(WHide(w1))
                 /\ last_op' = Op("hide_to_tray", Outcomes(emit_ok, hide_ok),
                                  WHide(w1).calls, Ok)
                 /\ UNCHANGED call_failed
    /\ UNCHANGED <<windows, running, exit_code>>
    /\ HotUnchanged
    /\ UNCHANGED cfgvars

\* ------------------------------------------------------------------- config
\* A JSON string is a sequence of characters; a run of ordinary characters
\* is one element, the quote and the backslash are elements of their own.
\* A document is a JSON object with string members: a function from member
\* names to strings.  A file's content is a sequence of characters.
Q == "\""
BS == "\\"
NL == "\n"
IND == "  "

\* serde_json's Map keeps its keys sorted
KeyOrder == <<"llmApiKey", "llmProvider", "whisperApiKey", "whisperUrl">>
Fields == {KeyOrder[i] : i \in 1..Len(KeyOrder)}

\* lines 27-32: serde_json::json!({...})
DefaultConfig ==
    [k \in Fields |->
        CASE k = "whisperUrl" -> <<"https://api.openai.com/v1/audio/transcriptions">>
          [] k = "whisperApiKey" -> <<>>
          [] k = "llmProvider" -> <<"openai">>
          [] k = "llmApiKey" -> <<>>]

\* no escaping: the characters are written as they are
Escape_none(str) == str

RECURSIVE Escape(_)
\* serde_json string escaping: a backslash before each quote and backslash
Escape(str) ==
    IF str = <<>> THEN <<>>
    ELSE (IF Head(str) \in {Q, BS} THEN <<BS, Head(str)>> ELSE <<Head(str)>>)
         \o Escape(Tail(str))

Quoted(str) == <<Q>> \o Escape(str) \o <<Q>>

RECURSIVE Members(_, _, _)
\* the members of doc from position i of KeyOrder on, one per line
Members(doc, i, first) ==
    IF i > Len(KeyOrder) THEN <<>>
    ELSE IF KeyOrder[i] \notin DOMAIN doc THEN Members(doc, i + 1, first)
    ELSE (IF first THEN <<>> ELSE <<",">>)
         \o <<NL, IND>> \o Quoted(<<KeyOrder[i]>>) \o <<":", " ">>
         \o Quoted(doc[KeyOrder[i]])
         \o Members(doc, i + 1, FALSE)

\* line 45: serde_json::to_string_pretty(&config)
to_string_pretty(doc) ==
    IF DOMAIN doc = {} THEN <<"{", "}">>
    ELSE <<"{">> \o Members(doc, 1, TRUE) \o <<NL, "}">>

Whitespace == {NL, IND, " "}

RECURSIVE SkipWs(_, _)
SkipWs(c, i) ==
    IF i <= Len(c) /\ c[i] \in Whitespace THEN SkipWs(c, i + 1) ELSE i

ParseError == [ok |-> FALSE]

RECURSIVE StringBody(_, _, _)
\* the characters of a string literal from position i, up to the closing quote
StringBody(c, i, acc) ==
    IF i > Len(c) THEN ParseError
    ELSE IF c[i] = Q THEN [ok |-> TRUE, value |-> acc, next |-> i + 1]
    ELSE IF c[i] = BS
    THEN IF i + 1 <= Len(c) /\ c[i + 1] \in {Q, BS}
         THEN StringBody(c, i + 2, Append(acc, c[i + 1]))
         ELSE ParseError
    ELSE StringBody(c, i + 1, Append(acc, c[i]))

\* a string literal at position i
StringAt(c, i) ==
    IF i <= Len(c) /\ c[i] = Q THEN StringBody(c, i + 1, <<>>) ELSE ParseError

Extend(doc, k, v) == [x \in DOMAIN doc \cup {k} |-> IF x = k THEN v ELSE doc[x]]

RECURSIVE MembersAt(_, _, _)
\* `"name": "value"` at position i, then `,` and more members, or `}`;
\* a repeated name keeps the last value.  Member names are plain (one run
\* of ordinary characters).
MembersAt(c, i, doc) ==
    LET k == StringAt(c, i) IN
    IF ~k.ok \/ Len(k.value) # 1 THEN ParseError
    ELSE LET colon == SkipWs(c, k.next) IN
    IF colon > Len(c) \/ c[colon] # ":" THEN ParseError
    ELSE LET v == StringAt(c, SkipWs(c, colon + 1)) IN
    IF ~v.ok THEN ParseError
    ELSE LET sep == SkipWs(c, v.next)
             d == Extend(doc, k.value[1], v.value) IN
    IF sep > Len(c) THEN ParseError
    ELSE IF c[sep] = "}" THEN [ok |-> TRUE, value |-> d, next |-> sep + 1]
    ELSE IF c[sep] = "," THEN MembersAt(c, SkipWs(c, sep + 1), d)
    ELSE ParseError

EmptyDoc == NoDoc

\* line 25: serde_json::from_str(&content); trailing characters are an error
from_str(c) ==
    LET open == SkipWs(c, 1) IN
    IF open > Len(c) \/ c[open] # "{" THEN ParseError
    ELSE LET first == SkipWs(c, open + 1)
             obj == IF first <= Len(c) /\ c[first] = "}"
                    THEN [ok |-> TRUE, value |-> EmptyDoc, next |-> first + 1]
                    ELSE MembersAt(c, first, EmptyDoc) IN
    IF ~obj.ok THEN ParseError
    ELSE IF SkipWs(c, obj.next) <= Len(c) THEN ParseError
    ELSE [ok |-> TRUE, value |-> obj.value]

\* The file at the config path: none, one that read_to_string cannot read,
\* or one with a content.
Absent == [state |-> "absent", content |-> <<>>]
Unreadable == [state |-> "unreadable", content |-> <<>>]
File(c) == [state |-> "file", content |-> c]

\* strings that occur as member values of the documents tried
StrVals == {<<>>, <<"sk-", Q, BS>>}

\* documents passed to save_config
Docs ==
    [Fields -> StrVals] \cup {DefaultConfig, EmptyDoc}
        \cup [{"llmApiKey"} -> StrVals]

\* contents a file not written by save_config may have
ForeignContents ==
    { <<>>,
      <<"{">>,
      <<"{", Q, "llmApiKey", Q, ":", Q, Q, "}">>,
      <<"{", Q, "llmApiKey", Q, ":", Q, BS, Q, "}">>,
      <<"{", Q, "llmApiKey", Q, ":", Q, Q, ",", "}">>,
      <<"{", "}", "}">>,
      SubSeq(to_string_pretty(DefaultConfig), 1,
             Len(to_string_pretty(DefaultConfig)) - 1),
      to_string_pretty(DefaultConfig) }

WinUnchanged ==
    UNCHANGED <<visible, focused, windows, running, exit_code, last_event,
                call_failed>>

\* the default document is written to disk when the file is absent
get_config_init ==
    /\ running
    /\ config_dir = "some"
    /\ file = Absent
    /\ file' = File(to_string_pretty(DefaultConfig))
    /\ last_op' = ConfigOp("get_config", Ok, DefaultConfig)
    /\ UNCHANGED config_dir
    /\ WinUnchanged
    /\ HotUnchanged

\* a file that does not parse is treated like a missing one
get_config_fallback ==
    /\ running
    /\ last_op' =
         IF config_dir = "none"
         THEN ConfigOp("get_config", Err("Could not find config directory"), NoDoc)
         ELSE IF file.state = "file" /\ from_str(file.content).ok
         THEN ConfigOp("get_config", Ok, from_str(file.content).value)
         ELSE ConfigOp("get_config", Ok, DefaultConfig)
    /\ UNCHANGED cfgvars
    /\ WinUnchanged
    /\ HotUnchanged

\* lines 16-34
get_config ==
    /\ running
    /\ last_op' =
         IF config_dir = "none"
         THEN ConfigOp("get_config", Err("Could not find config directory"), NoDoc)
         ELSE IF file # Absent
         THEN IF file = Unreadable
              THEN ConfigOp("get_config", Err("io"), NoDoc)
              ELSE IF from_str(file.content).ok
              THEN ConfigOp("get_config", Ok, from_str(file.content).value)
              ELSE ConfigOp("get_config", Err("json"), NoDoc)
         ELSE ConfigOp("get_config", Ok, DefaultConfig)
    /\ UNCHANGED cfgvars
    /\ WinUnchanged
    /\ HotUnchanged

\* lines 36-49; mkdir_ok and write_ok are the outcomes of create_dir_all
\* and fs::write (a failed write leaves the file as it was)
save_config(config, mkdir_ok, write_ok) ==
    /\ running
    /\ IF config_dir = "none"
       THEN /\ last_op' = ConfigOp("save_config",
                                   Err("Could not find config directory"), config)
            /\ UNCHANGED file
       ELSE IF ~mkdir_ok \/ ~write_ok
       THEN /\ last_op' = ConfigOp("save_config", Err("io"), config)
            /\ UNCHANGED file
       ELSE /\ file' = File(to_string_pretty(config))
            /\ last_op' = ConfigOp("save_config", Ok, config)
    /\ UNCHANGED config_dir
    /\ WinUnchanged
    /\ HotUnchanged

\* ------------------------------------------------------------ specification
\* the timestamp starts at Instant::now(), not one second before it
InitHotkey_nobackdate ==
    /\ clock = InitialBackdateMs
    /\ ticks = 0
    /\ last_shortcut_time = clock
    /\ lock = NoHolder
    /\ pc = [h \in Activations |-> "idle"]
    /\ now = [h \in Activations |-> 0]
    /\ inv = [h \in Activations |-> NoInv]

InitHotkey ==
    /\ clock = InitialBackdateMs
    /\ ticks = 0
    \* line 61: Instant::now() - Duration::from_secs(1)
    /\ last_shortcut_time = clock - InitialBackdateMs
    /\ lock = NoHolder
    /\ pc = [h \in Activations |-> "idle"]
    /\ now = [h \in Activations |-> 0]
    /\ inv = [h \in Activations |-> NoInv]

InitWindow ==
    \* lines 132-135: the window is shown at start-up in debug builds
    /\ visible \in BOOLEAN
    /\ focused = FALSE
    /\ windows \in {{"main"}, Labels}
    /\ running = TRUE
    /\ exit_code = -1      \* no exit code yet
    /\ last_op = NoOp
    /\ last_event = "none"
    /\ call_failed = FALSE

Init ==
    /\ InitHotkey
    /\ InitWindow
    /\ config_dir = "some"
    /\ file = Absent

Hotkey ==
    \E h \in Activations :
        \/ ReadNow(h)
        \/ Lock(h)
        \/ Compare(h)
        \/ Unlock(h)
        \/ IsVisible(h)
        \/ EmitAction(h)
        \/ ToggleShow(h)
        \/ ToggleSetFocus(h)
        \/ ToggleEmitShown(h)

\* The hotkey handler against the clock.
NextHotkey ==
    \/ Tick
    \/ Hotkey

HotkeySpec == Init /\ [][NextHotkey]_vars

\* The hotkey handler against the main-thread handlers.
Next ==
    \/ Hotkey
    \/ \E id \in MenuIds : on_menu_event(id)
    \/ \E event \in TrayIconEvents : on_tray_icon_event(event)
    \/ \E label \in Labels : CloseRequested(label)
    \/ \E emit_ok, hide_ok \in BOOLEAN : hide_to_tray(emit_ok, hide_ok)

Spec == Init /\ [][Next]_vars

\* A thread that can take a step of lines 110-115 takes it: the lock is
\* granted when free, and the comparison and the drop of the guard do not
\* wait for anything.
FairSpec ==
    /\ Spec
    /\ \A h \in Activations :
          WF_vars(Lock(h)) /\ WF_vars(Compare(h)) /\ WF_vars(Unlock(h))

\* The config commands, from every state of the config path.
InitConfig ==
    /\ InitHotkey
    /\ InitWindow
    /\ config_dir \in {"some", "none"}
    /\ file \in {Absent, Unreadable} \cup {File(c) : c \in ForeignContents}

NextConfig ==
    \/ get_config
    \/ \E config \in Docs, mkdir_ok, write_ok \in BOOLEAN :
           save_config(config, mkdir_ok, write_ok)

ConfigSpec == InitConfig /\ [][NextConfig]_vars

\* ------------------------------------------------------------------- claims
Accepted(h) == inv[h].result = "accepted"
Rejected(h) == inv[h].result = "rejected"
\* invocation h leaves the comparison of lines 111-114 in this step
Compares(h) == pc[h] = "compare" /\ pc'[h] # "compare"
\* invocation h takes a step
Steps(h) == pc'[h] # pc[h]

\* C1: an activation whose clock reading is `now` is accepted, and the
\* timestamp becomes `now`, iff now - timestamp >= 300 ms; otherwise it is
\* rejected and the timestamp keeps its value.  A gap of exactly 300 ms is
\* accepted.
C1_AcceptIffCooldownElapsed ==
    [][\A h \in Activations : Compares(h) =>
         IF now[h] - last_shortcut_time >= 300
         THEN inv'[h].result = "accepted" /\ last_shortcut_time' = now[h]
         ELSE inv'[h].result = "rejected"
              /\ last_shortcut_time' = last_shortcut_time]_vars

\* an activation accepted exactly 300 ms after the accepted one before it
C1_Witness ==
    \E g, h \in Activations :
        /\ Accepted(g) /\ Accepted(h)
        /\ inv[g].order < inv[h].order
        /\ now[h] - now[g] = 300
        /\ last_shortcut_time = now[h]

\* C2: from the initial timestamp, of the first two activations to be
\* decided, with readings now1 <= now2, the first is accepted and the second
\* is accepted iff now2 - now1 >= 300 ms.
C2_FirstTwoActivations ==
    \A g, h \in Activations :
        /\ inv[g].order = 1 /\ inv[g].result # "none" => Accepted(g)
        /\ (/\ inv[g].order = 1 /\ inv[h].order = 2
            /\ inv[h].result # "none"
            /\ now[g] <= now[h])
           => (Accepted(h) <=> now[h] - now[g] >= 300)

\* the second activation comes 299 ms after the first and is rejected
C2_Witness ==
    \E g, h \in Activations :
        /\ inv[g].order = 1 /\ Accepted(g)
        /\ inv[h].order = 2 /\ Rejected(h)
        /\ now[h] - now[g] = 299

\* C3: any two accepted activations have clock readings at least 300 ms
\* apart, whichever of them took the lock first.
C3_AcceptedFarApart ==
    \A g, h \in Activations :
        g # h /\ Accepted(g) /\ Accepted(h) =>
            \/ now[g] - now[h] >= 300
            \/ now[h] - now[g] >= 300

\* two invocations in flight at once: the one that read the clock later took
\* the lock first and was accepted, the other was then rejected
C3_Witness ==
    \E g, h \in Activations :
        /\ now[g] < now[h]
        /\ inv[h].order = 1 /\ Accepted(h)
        /\ inv[g].order = 2 /\ Rejected(g)

\* C4: the timestamp never decreases, and it is written only by the holder
\* of the lock, in the step that makes the accept/reject comparison.
C4_TimestampMonotonic ==
    [][/\ last_shortcut_time' >= last_shortcut_time
       /\ last_shortcut_time' # last_shortcut_time =>
            /\ lock # NoHolder
            /\ Compares(lock)
            /\ last_shortcut_time' = now[lock]]_vars

\* an invocation whose reading is older than the timestamp has been decided
C4_Witness ==
    \E h \in Activations :
        /\ inv[h].result # "none"
        /\ now[h] < last_shortcut_time
        /\ last_shortcut_time > 0

\* C5: an accepted activation that finds the main window hidden shows it,
\* focuses it, and emits exactly one window-shown and no shortcut-action.
C5_ToggleWhenHidden ==
    /\ [](\A h \in Activations : inv[h].saw = "hidden" =>
            /\ Accepted(h)
            /\ pc[h] \in {"show", "set_focus", "emit_shown", "done"}
            /\ pc[h] = "done" =>
                 inv[h].calls = <<"show", "set_focus", "window-shown">>)
    /\ [][\A h \in Activations :
            /\ pc[h] = "show" /\ Steps(h) => visible'
            /\ pc[h] = "set_focus" /\ Steps(h) => focused'
            /\ pc[h] = "emit_shown" /\ Steps(h) => last_event' = "window-shown"]_vars

\* a toggle of a hidden window has finished, the window is shown and focused
C5_Witness ==
    \E h \in Activations :
        /\ pc[h] = "done" /\ inv[h].saw = "hidden"
        /\ visible /\ focused /\ last_event = "window-shown"

\* C6: an accepted activation that finds the main window shown leaves the
\* visibility as it is and emits exactly one shortcut-action and neither
\* window-shown nor window-hidden.
C6_ToggleWhenShown ==
    /\ [](\A h \in Activations : inv[h].saw = "shown" =>
            /\ Accepted(h)
            /\ pc[h] \in {"emit_action", "done"}
            /\ inv[h].calls =
                 IF pc[h] = "done" THEN <<"shortcut-action">> ELSE <<>>)
    /\ [][\A h \in Activations :
            (inv[h].saw = "shown" \/ inv'[h].saw = "shown") /\ Steps(h) =>
                /\ visible' = visible
                /\ focused' = focused
                /\ last_event' = last_event]_vars

\* a toggle of a shown window has finished and the window is still shown
C6_Witness ==
    \E h \in Activations :
        /\ pc[h] = "done" /\ inv[h].saw = "shown"
        /\ inv[h].calls = <<"shortcut-action">>
        /\ visible

ClosedMain(op) == op.op = "close" /\ op.arg = "main"

\* C7: a close request on the main window is cancelled: the window is not
\* destroyed, the process keeps running, the window is hidden afterwards
\* and exactly one window-hidden is emitted, whether it was shown or hidden.
C7_CloseIntercepted ==
    /\ []("main" \in windows)
    /\ [](ClosedMain(last_op) =>
            last_op.calls = <<"prevent_close", "window-hidden", "hide">>)
    /\ [][ClosedMain(last_op') /\ last_op' # last_op =>
            /\ ~visible'
            /\ running'
            /\ windows' = windows
            /\ last_event' = "window-hidden"]_vars

\* the shown main window was asked to close and is now hidden, not destroyed
C7_Witness ==
    /\ ClosedMain(last_op) /\ last_op.was_visible
    /\ ~visible /\ running /\ "main" \in windows

Quit(op) == op.op = "menu" /\ op.arg = "quit"

\* C8: the tray menu item "quit" ends the process with exit code 0 without
\* hiding the window or emitting an event, and nothing else ends the process.
C8_QuitOnlyExit ==
    /\ [](Quit(last_op) =>
            ~running /\ exit_code = 0 /\ last_op.calls = <<"exit">>)
    /\ [](~running => Quit(last_op))
    /\ [][running /\ ~running' =>
            /\ visible' = visible
            /\ focused' = focused
            /\ last_event' = last_event
            /\ inv' = inv]_vars

\* the process has quit with the window still shown
C8_Witness == ~running /\ Quit(last_op) /\ last_op.was_visible /\ visible

MenuShow(op) == op.op = "menu" /\ op.arg = "show"

\* C9: the tray menu item "show" performs the full show() sequence: the
\* window ends shown and focused and one window-shown is emitted.
C9_MenuShowEmits ==
    MenuShow(last_op) =>
        last_op.calls = <<"show", "set_focus", "window-shown">>

GotConfig(op) == op.op = "get_config"

\* C10: when the config path resolves and no file exists at it, get_config
\* returns exactly the default document; get_config never changes the file,
\* and an absent file stays absent until a save_config succeeds.
C10_DefaultNotWritten ==
    [][/\ GotConfig(last_op') /\ last_op' # last_op =>
            /\ file' = file
            /\ config_dir = "some" /\ file = Absent =>
                 /\ last_op'.result.ok
                 /\ last_op'.doc =
                      [whisperUrl |->
                          <<"https://api.openai.com/v1/audio/transcriptions">>,
                       whisperApiKey |-> <<>>,
                       llmProvider |-> <<"openai">>,
                       llmApiKey |-> <<>>]
       /\ file = Absent /\ file' # Absent =>
            last_op'.op = "save_config" /\ last_op'.result.ok]_vars

\* get_config has returned a document and there is still no file
C10_Witness ==
    /\ GotConfig(last_op) /\ last_op.result.ok
    /\ config_dir = "some" /\ file = Absent

SavedConfig(op) == op.op = "save_config" /\ op.result.ok

\* C11: a get_config that follows a successful save_config(D) returns a
\* document equal to D, whatever the file held before the save.
C11_SaveThenGet ==
    [][SavedConfig(last_op) /\ GotConfig(last_op') =>
         /\ last_op'.result.ok
         /\ last_op'.doc = last_op.doc]_vars

\* a one-member document whose value holds a quote and a backslash has been
\* saved and read back
C11_Witness ==
    /\ GotConfig(last_op) /\ last_op.result.ok
    /\ DOMAIN last_op.doc = {"llmApiKey"}
    /\ last_op.doc["llmApiKey"] = <<"sk-", Q, BS>>
    /\ file.state = "file"

\* file contents that are not JSON: empty, cut short, a dangling escape,
\* a trailing comma, characters after the document
Malformed ==
    { <<>>,
      <<"{">>,
      <<"{", Q, "llmApiKey", Q, ":", Q, BS, Q, "}">>,
      <<"{", Q, "llmApiKey", Q, ":", Q, Q, ",", "}">>,
      <<"{", "}", "}">> }

\* C12: when the file exists and its content is malformed, get_config
\* returns an error and no document, and leaves the file as it is; a
\* document is returned for an existing file only if the file holds it.
C12_MalformedIsError ==
    [][GotConfig(last_op') /\ last_op' # last_op /\ file.state = "file" =>
         /\ file' = file
         /\ file.content \in Malformed =>
              ~last_op'.result.ok /\ last_op'.doc = NoDoc
         /\ last_op'.result.ok =>
              \/ file.content = to_string_pretty(last_op'.doc)
              \/ /\ file.content = <<"{", Q, "llmApiKey", Q, ":", Q, Q, "}">>
                 /\ last_op'.doc = [llmApiKey |-> <<>>]]_vars

\* get_config has failed on a file that is there and is not JSON
C12_Witness ==
    /\ GotConfig(last_op) /\ ~last_op.result.ok
    /\ last_op.result.err = "json"
    /\ file.state = "file" /\ file.content \in Malformed

\* the window calls of a sequence of calls, as a set
CallSet(calls) == {calls[i] : i \in 1..Len(calls)}

\* C13: under every interleaving with the main-thread handlers, the
\* toggle's read of the visibility and its action are not separated by a
\* visibility change: shortcut-action is emitted only while the window is
\* shown, and an invocation that read the window as shown never shows it.
C13_ToggleNotInterleaved ==
    [][\A h \in Activations :
         /\ pc[h] = "emit_action" /\ Steps(h) => visible
         /\ inv'[h].saw = "shown" => "show" \notin CallSet(inv'[h].calls)]_vars

\* C14: a rejected activation is dropped silently: the handler returns from
\* the comparison having made no window call and read no visibility, and
\* the rejecting step changes neither the timestamp nor the window nor the
\* events, and reports no error.
C14_RejectedIsSilent ==
    /\ [](\A h \in Activations : Rejected(h) =>
            /\ pc[h] = "done"
            /\ inv[h].calls = <<>>
            /\ inv[h].saw = "none")
    /\ [][\A h \in Activations : Compares(h) /\ inv'[h].result = "rejected" =>
            /\ last_shortcut_time' = last_shortcut_time
            /\ visible' = visible
            /\ focused' = focused
            /\ last_event' = last_event
            /\ call_failed' = call_failed
            /\ running']_vars

\* one activation has been accepted and has toggled, another was rejected
C14_Witness ==
    \E g, h \in Activations :
        /\ Accepted(g) /\ pc[g] = "done" /\ inv[g].calls # <<>>
        /\ Rejected(h)

\* C15: the lock is held only for the compare-and-update: an invocation
\* that is querying, showing, focusing or emitting, or has returned, does
\* not hold it; and every invocation waiting for the lock gets it, unless
\* the process exits first.
C15_LockOnlyForCompare ==
    /\ [](\A h \in Activations :
            /\ lock = h => pc[h] \in {"compare", "unlock"}
            /\ pc[h] \in {"is_visible", "emit_action", "show", "set_focus",
                          "emit_shown", "done"} => lock # h)
    /\ \A h \in Activations : (pc[h] = "lock") ~> (pc[h] # "lock" \/ ~running)

\* one invocation is past the lock and about to call the window while
\* another holds the lock
C15_Witness ==
    \E g, h \in Activations :
        /\ pc[g] \in {"is_visible", "emit_action", "show", "set_focus", "emit_shown"}
        /\ lock = h /\ pc[h] = "compare"

HidToTray(op) == op.op = "hide_to_tray"

\* C16: hide_to_tray returns an error iff emitting window-hidden or hiding
\* the window fails; on success the window is hidden and exactly one
\* window-hidden was emitted; on an error the call has not changed the
\* window's visibility.
C16_HideToTrayResult ==
    /\ [](HidToTray(last_op) =>
            /\ ~last_op.result.ok <=>
                 last_op.arg \in {"emit fails", "hide fails", "both fail"}
            /\ last_op.result.ok =>
                 last_op.calls = <<"window-hidden", "hide">>)
    /\ [][HidToTray(last_op') /\ last_op' # last_op =>
            IF last_op'.result.ok THEN ~visible' ELSE visible' = visible]_vars

\* hide_to_tray has returned the error of a failed hide; the window is
\* still shown
C16_Witness ==
    /\ HidToTray(last_op) /\ last_op.arg = "hide fails"
    /\ ~last_op.result.ok /\ last_op.was_visible /\ visible

\* call a comes before call b in a sequence of calls
Precedes(calls, a, b) ==
    \E i, j \in 1..Len(calls) : i < j /\ calls[i] = a /\ calls[j] = b

\* C17: when hide_to_tray emits window-hidden the main window is already
\* hidden: it was hidden before the call, or the call hid it before it
\* emitted.
C17_HiddenWhenEmitted ==
    HidToTray(last_op) /\ "window-hidden" \in CallSet(last_op.calls) =>
        \/ ~last_op.was_visible
        \/ Precedes(last_op.calls, "hide", "window-hidden")

TrayActivated(op) == op.op = "tray" /\ op.arg = "DoubleClick"

\* C18: a tray-icon activation is not debounced and is idempotent: from
\* either visibility state, and however soon after an accepted hotkey
\* activation, it leaves the main window shown and focused and emits
\* exactly one window-shown, and it does not touch the timestamp or its lock.
C18_TrayNotDebounced ==
    /\ [](TrayActivated(last_op) =>
            last_op.calls = <<"show", "set_focus", "window-shown">>)
    /\ [][TrayActivated(last_op') /\ last_op' # last_op =>
            /\ visible' /\ focused'
            /\ last_event' = "window-shown"
            /\ last_shortcut_time' = last_shortcut_time
            /\ lock' = lock]_vars

\* the tray icon was activated on a shown window, at the very clock reading
\* of an accepted hotkey activation
C18_Witness ==
    /\ TrayActivated(last_op) /\ last_op.was_visible
    /\ visible /\ focused
    /\ \E h \in Activations : Accepted(h) /\ now[h] = clock

Quiescent == \A h \in Activations : pc[h] \in {"idle", "done"}

\* C20: when no emit or window call has failed and every operation has
\* finished, the last of window-shown and window-hidden to be emitted
\* agrees with the visibility of the main window.
C20_LastEventAgrees ==
    Quiescent /\ ~call_failed =>
        /\ last_event = "window-shown" => visible
        /\ last_event = "window-hidden" => ~visible
====
